---- MODULE Spec2Model ----
(***************************************************************************)
(* Model of the ingestion pipeline of logaggregate.py: the ingestion loop   *)
(* listen_and_write, the generator receive_batch, the acceptance filter     *)
(* and the two sinks write_immediately and write_batch.                     *)
(*                                                                          *)
(* A generator is lazy: the body of receive_batch runs only when its        *)
(* consumer asks for the next record.  The model therefore keeps the        *)
(* generator's counter as state and interleaves its steps with the steps    *)
(* of the sink that consumes it.  sqlite3's executemany draws one           *)
(* parameter mapping from its iterator, executes the statement with it,     *)
(* and only then draws the next.                                            *)
(*                                                                          *)
(* Spec runs Config.__init__ and then listen_and_write.  SpecBind applies   *)
(* parse_bind to one address string.                                        *)
(***************************************************************************)
EXTENDS Integers, Sequences, FiniteSets, TLC

VARIABLES addr, binding, args, cfg, total, verbose, flt, pc, count, gcount, si,
          pld, recvd, evals, batches, store, err

vars == <<addr, binding, args, cfg, total, verbose, flt, pc, count, gcount, si,
          pld, recvd, evals, batches, store, err>>

(* ------------------------------ bounds --------------------------------- *)
MaxBatch  == 2      \* largest configured batch size
MaxTotal  == 4      \* largest finite total budget
MaxFrames == 4      \* datagrams the transport delivers in one run
MaxCycles == 3      \* iterations of the batched loop in one run
MinBatch  == 0 - 1  \* smallest configured batch size (Config accepts any int)

(* float('inf'), the default of total: above every integer a counter or a  *)
(* configured limit takes.  Finite budgets are 0..MaxTotal.                 *)
Inf == 1000000

(* --------------------------- JSON and frames --------------------------- *)
(* A decoded JSON value: a mapping for an object, no items for other types *)
NoItems == [x \in {} |-> "none"]
JObject(m) == [type |-> "object", items |-> m]
JNumber == [type |-> "number", items |-> NoItems]
JString == [type |-> "string", items |-> NoItems]

RecEuHi == [region |-> "eu", msg |-> "hi"]
RecSpoof == [msg |-> "spoof"]

(* A datagram, described by what json.loads finds in it:                    *)
(*   encoding  the encoding json detects from the first bytes (UTF-8,       *)
(*             or UTF-16 / UTF-32 by a byte order mark or zero bytes);      *)
(*   decodes   whether the bytes decode in that encoding;                   *)
(*   parse     what the parser, reading the text from left to right,        *)
(*             meets first: "document" the end of a JSON document,          *)
(*             "syntax" a syntax error, "depth" nesting of arrays or        *)
(*             objects beyond the depth it can recurse to.  A text with a   *)
(*             syntax error before its deep nesting is "syntax"; one with   *)
(*             the deep nesting first is "depth", well formed or not;       *)
(*   value     the value the document denotes;                              *)
(*   prints    whether print can write the value to sys.stdout: it cannot   *)
(*             when str(value) holds a character the encoding of stdout     *)
(*             lacks, as the lone surrogate of the string "\ud800" does.    *)
Frame(enc, dec, parse, v, prints) ==
    [encoding |-> enc, decodes |-> dec, parse |-> parse, value |-> v,
     prints |-> prints]

FrameObj(m) == Frame("utf-8", TRUE, "document", JObject(m), TRUE)
FrameUtf16(m) == Frame("utf-16", TRUE, "document", JObject(m), TRUE)
FrameNumber == Frame("utf-8", TRUE, "document", JNumber, TRUE)
FrameGarbage == Frame("utf-8", TRUE, "syntax", JNumber, TRUE)
FrameNotUtf8 == Frame("utf-8", FALSE, "syntax", JNumber, TRUE)
FrameDeep == Frame("utf-8", TRUE, "depth", JNumber, TRUE)
FrameSurrogate == Frame("utf-8", TRUE, "document", JString, FALSE)

Frames == {FrameObj(RecEuHi), FrameObj(RecSpoof), FrameUtf16(RecSpoof),
           FrameNumber, FrameGarbage, FrameNotUtf8, FrameDeep, FrameSurrogate}

(* json.loads(raw): the bytes are decoded in the detected encoding          *)
(* (UnicodeDecodeError), then parsed from left to right: the first of a     *)
(* syntax error (JSONDecodeError), nesting too deep (RecursionError) and    *)
(* the end of the document decides; the result is the value, or the         *)
(* exception raised                                                         *)
loads(raw) ==
    IF ~raw.decodes
    THEN [ok |-> FALSE, exc |-> "UnicodeDecodeError", value |-> raw.value]
    ELSE IF raw.parse = "depth"
    THEN [ok |-> FALSE, exc |-> "RecursionError", value |-> raw.value]
    ELSE IF raw.parse = "syntax"
    THEN [ok |-> FALSE, exc |-> "JSONDecodeError", value |-> raw.value]
    ELSE [ok |-> TRUE, exc |-> "none", value |-> raw.value]

IsMapping(v) == v.type = "object"

(* ------------------------------- filter -------------------------------- *)
(* a filter that lets every record through whatever its literal *)
filterAcceptAll(f, inpt) == "True"

(* flt = "default" is filter() as shipped.  Any other flt is the filter    *)
(* with its two commented lines enabled and flt as the literal:            *)
(*     if inpt.get('msg') != flt: return False                             *)
(* The result is "True", "False", or "AttributeError" when inpt has no get *)
filter(f, inpt) ==
    IF f = "default" THEN "True"
    ELSE IF ~IsMapping(inpt) THEN "AttributeError"
    ELSE IF "msg" \in DOMAIN inpt.items /\ inpt.items["msg"] = f THEN "True"
    ELSE "False"

Filters == {"default", "hi"}

(* ---------------------------- configuration ---------------------------- *)
InsertLists == {<<>>, <<"ins1">>, <<"ins1", "ins2">>}
DefaultsSet == {NoItems, [region |-> "us"]}
Totals == (0..MaxTotal) \cup {Inf}
BatchSizes == MinBatch..MaxBatch

(* merge with the operands swapped: the defaults win on a shared key *)
mergeDefaultsWin(defaults, p) ==
    [k \in (DOMAIN defaults) \cup (DOMAIN p) |->
        IF k \in DOMAIN defaults THEN defaults[k] ELSE p[k]]

(* {**cfg.defaults, **pld} *)
merge(defaults, p) ==
    [k \in (DOMAIN defaults) \cup (DOMAIN p) |->
        IF k \in DOMAIN p THEN p[k] ELSE defaults[k]]

(* a comparison with a limit that may be float('inf') *)
Less(c, t) == t = Inf \/ c < t

(* the loop condition off by one: count <= total *)
LoopCondInclusive(c, t) == t = Inf \/ c <= t

(* line 62: while count < total *)
LoopCond(c, t) == Less(c, t)

(* the generator condition off by one: count <= batchsize *)
MoreWantedInclusive(c, limit) == limit = Inf \/ c <= limit

(* line 78: while count < batchsize *)
MoreWanted(c, limit) == Less(c, limit)

(* the total counter advanced by one per batch instead of batchsize *)
NextCountByOne(c, batchsize) == c + 1

(* line 68: count = count + batchsize *)
NextCount(c, batchsize) == c + batchsize

(* line 85: count = count + 1 *)
CountAccepted(c) == c + 1

(* the limit handed to receive_batch: total (line 59) or batchsize (line 66) *)
Limit(batchsize, t) == IF batchsize = 0 THEN t ELSE batchsize

(* a store that logs the newest application first *)
ExecuteNewestFirst(st, insrt, defaults, p) ==
    <<[stmt |-> insrt, params |-> merge(defaults, p), src |-> p]>> \o st

(* conn.execute / one round of conn.executemany: the store logs the         *)
(* statement and its parameters; src remembers the record they came from    *)
Execute(st, insrt, defaults, p) ==
    Append(st, [stmt |-> insrt, params |-> merge(defaults, p), src |-> p])

(* the record a generator yields is added to the batch of that generator *)
Yield(bs, p) == [bs EXCEPT ![Len(bs)] = Append(@, p)]

(* only the first statement is run for a record *)
StmtsLeftFirstOnly(i, insert) == i <= 1 /\ i <= Len(insert)

(* line 97: the statements left to run for the record in hand *)
StmtsLeft(i, insert) == i <= Len(insert)

(* a filter call made for every frame, decoded or not *)
EvaluatedAlways(ev, r) == Append(ev, r.value)

(* lines 80-84: filter(payload) is called once loads has returned; the      *)
(* except branch continues without calling it.  ev lists the calls.         *)
Evaluated(ev, r) == IF r.ok THEN Append(ev, r.value) ELSE ev

(* lines 86-87: if verbose: print('Processing:', payload).  The result is   *)
(* "printed", "silent" when verbose is off, or the exception print raises.  *)
Processing(vb, raw) ==
    IF ~vb THEN "silent"
    ELSE IF raw.prints THEN "printed"
    ELSE "UnicodeEncodeError"

NoPld == JNumber

(* --------------------------- Config.__init__ --------------------------- *)
(* The arguments of Config(...).  None is "None"; insert and batch carry    *)
(* their type, since the constructor tests it.                              *)
InsertArgs == {[isList |-> FALSE, items |-> <<>>]}
              \cup {[isList |-> TRUE, items |-> l] : l \in InsertLists}
BatchArgs == {[isInt |-> FALSE, val |-> 0]}
             \cup {[isInt |-> TRUE, val |-> b] : b \in BatchSizes}

ArgsSet == [database : {"None", "log.db"}, create : {"None", "list"},
            insert : InsertArgs, defaults : DefaultsSet, batch : BatchArgs,
            exporter : {"None", "exporter"}, bind : {"None", "bind"}]

(* no Config object yet, and no constructor arguments (a direct call) *)
NoConfig == [database |-> "None", create |-> "None", insert |-> <<>>,
             defaults |-> NoItems, batch |-> 0, exporter |-> "None",
             bind |-> "None"]
NoArgs == [database |-> "no Config call", create |-> "None",
           insert |-> [isList |-> FALSE, items |-> <<>>], defaults |-> NoItems,
           batch |-> [isInt |-> FALSE, val |-> 0], exporter |-> "None",
           bind |-> "None"]

Raised(exc) == [ok |-> FALSE, exc |-> exc, cfg |-> NoConfig]

(* Config.__init__ without the test of bind *)
ConfigInitNoBindTest(a) ==
    IF a.database = "None" THEN Raised("ValueError: No database file configured!")
    ELSE IF a.create = "None"
    THEN Raised("ValueError: No create statement list configured!")
    ELSE IF ~a.insert.isList
    THEN Raised("ValueError: No insert statement list configured!")
    ELSE IF ~a.batch.isInt THEN Raised("ValueError: Invalid batch size")
    ELSE [ok |-> TRUE, exc |-> "none",
          cfg |-> [database |-> a.database, create |-> a.create,
                   insert |-> a.insert.items, defaults |-> a.defaults,
                   batch |-> a.batch.val, exporter |-> a.exporter,
                   bind |-> a.bind]]

(* Config.__init__, lines 128-147: the tests in their order, then the       *)
(* attributes                                                               *)
ConfigInit(a) ==
    IF a.database = "None" THEN Raised("ValueError: No database file configured!")
    ELSE IF a.create = "None"
    THEN Raised("ValueError: No create statement list configured!")
    ELSE IF ~a.insert.isList
    THEN Raised("ValueError: No insert statement list configured!")
    ELSE IF ~a.batch.isInt THEN Raised("ValueError: Invalid batch size")
    ELSE IF a.bind = "None"
    THEN IF a.exporter = "None"
         THEN Raised("ValueError: Neither bind nor exporter configured!")
         ELSE Raised("NotImplementedError")
    ELSE [ok |-> TRUE, exc |-> "none",
          cfg |-> [database |-> a.database, create |-> a.create,
                   insert |-> a.insert.items, defaults |-> a.defaults,
                   batch |-> a.batch.val, exporter |-> a.exporter,
                   bind |-> a.bind]]

(* listen_and_write may also be called with an object that Config did not   *)
(* build.  With a binding it is in the state Construct leaves; the objects  *)
(* without one are the further starting points.                             *)
DirectConfigs == [database : {"log.db"}, create : {"list"}, insert : InsertLists,
                  defaults : DefaultsSet, batch : BatchSizes,
                  exporter : {"None", "exporter"}, bind : {"None"}]

(* ------------------------------ parse_bind ----------------------------- *)
(* An address string, written in its parts: scheme "://" host ":" port path *)
(* where an empty scheme leaves out "://" and an empty port leaves out ":". *)
(* [scheme |-> "ip", host |-> "localhost", port |-> "9999", path |-> ""] is *)
(* the string ip://localhost:9999.  NoUrl is None.                          *)
NoUrl == [scheme |-> "None", host |-> "", port |-> "", path |-> ""]
Urls == [scheme : {"", "ip", "unix", "ftp"},
         host : {"", "localhost", "127.0.0.1", "[::1]", "tmp", "TMP"},
         port : {"", "9999", "abc"},
         path : {"", "/tmp/sock"}]

(* binding is NoRes until parse_bind has returned or raised *)
NoRes == [ok |-> FALSE, exc |-> "not called", family |-> "None",
          host |-> "", port |-> "", address |-> <<>>]

(* a string as the sequence of its non-empty parts, so that + is \o *)
Str(t) == IF t = "" THEN <<>> ELSE <<t>>

(* urllib: a scheme is a letter followed by scheme characters *)
IsSchemeName(t) == t \in {"localhost", "tmp", "TMP"}

Lower(t) == IF t = "TMP" THEN "tmp" ELSE t

(* SplitResult.hostname: None for an empty host, else lower case and        *)
(* without the brackets of an IPv6 literal                                  *)
HostName(t) ==
    IF t = "" THEN "None" ELSE IF t = "[::1]" THEN "::1" ELSE Lower(t)

(* SplitResult.port: None, the number, or ValueError when read *)
PortOf(t) == IF t = "" THEN "None" ELSE IF t = "abc" THEN "ValueError" ELSE t

(* urlparse(inpt).  With "://" the parts are those written.  Without it,    *)
(* the text before a colon is taken as the scheme when it is a scheme name  *)
(* and the rest is the path; otherwise the whole string is the path.        *)
urlparse(u) ==
    IF u.scheme # ""
    THEN [scheme |-> u.scheme, hostname |-> HostName(u.host),
          port |-> PortOf(u.port), path |-> Str(u.path)]
    ELSE IF u.port # "" /\ IsSchemeName(u.host)
    THEN [scheme |-> Lower(u.host), hostname |-> "None", port |-> "None",
          path |-> Str(u.port) \o Str(u.path)]
    ELSE [scheme |-> "", hostname |-> "None", port |-> "None",
          path |-> Str(u.host) \o (IF u.port = "" THEN <<>> ELSE <<":", u.port>>)
                    \o Str(u.path)]

(* ipaddress.ip_address(hostname).version, or 0 when it raises ValueError *)
IpVersion(h) == IF h = "127.0.0.1" THEN 4 ELSE IF h = "::1" THEN 6 ELSE 0

BindError(exc) == [ok |-> FALSE, exc |-> exc, family |-> "None",
                   host |-> "", port |-> "", address |-> <<>>]

(* parse_bind, lines 267-275: the ip scheme *)
IpBind(r) ==
    LET version == IF r.hostname # "None" THEN IpVersion(r.hostname) ELSE 4
        hostname == IF r.hostname = "None" \/ r.hostname = "localhost"
                    THEN (IF version = 4 THEN "127.0.0.1" ELSE "::1")
                    ELSE r.hostname
    IN IF version = 0 THEN BindError("ValueError: not an IP address")
       ELSE IF r.port = "ValueError" THEN BindError("ValueError: port")
       ELSE IF r.port = "None" THEN BindError("ValueError: No port for ip socket!")
       ELSE [ok |-> TRUE, exc |-> "none",
             family |-> IF version = 4 THEN "AF_INET" ELSE "AF_INET6",
             host |-> hostname, port |-> r.port, address |-> <<>>]

(* parse_bind, lines 276-279: the unix scheme.  hostname is None, never     *)
(* the empty string, when the address has no host; None + path is a         *)
(* TypeError.                                                               *)
UnixBind(r) ==
    IF r.hostname = "" /\ r.path = <<>>
    THEN BindError("ValueError: No socket path!")
    ELSE IF r.hostname = "None" THEN BindError("TypeError")
    ELSE [ok |-> TRUE, exc |-> "none", family |-> "AF_UNIX",
          host |-> "", port |-> "", address |-> Str(r.hostname) \o r.path]

(* parse_bind, lines 262-280 *)
parse_bind(u) ==
    IF u = NoUrl
    THEN [ok |-> TRUE, exc |-> "none", family |-> "None",
          host |-> "", port |-> "", address |-> <<>>]
    ELSE LET first == urlparse(u)
             r == IF first.scheme = "" THEN urlparse([u EXCEPT !.scheme = "ip"])
                  ELSE first
         IN IF r.scheme = "ip" THEN IpBind(r)
            ELSE IF r.scheme = "unix" THEN UnixBind(r)
            ELSE BindError("ValueError: Unsupported scheme")

Init ==
    /\ addr = NoUrl
    /\ binding = NoRes
    /\ \/ pc = "config" /\ args \in ArgsSet /\ cfg = NoConfig
       \/ pc = "listen" /\ args = NoArgs /\ cfg \in DirectConfigs
    /\ evals = <<>>
    /\ total \in Totals
    /\ verbose \in BOOLEAN
    /\ flt \in Filters
    /\ count = 0
    /\ gcount = 0
    /\ si = 1
    /\ pld = NoPld
    /\ recvd = <<>>
    /\ batches = <<>>
    /\ store = <<>>
    /\ err = "none"

(* main, line 32: load_config ends in Config(...), lines 128-147 *)
Construct ==
    /\ pc = "config"
    /\ LET c == ConfigInit(args)
       IN IF c.ok
          THEN /\ cfg' = c.cfg
               /\ pc' = "listen"
               /\ UNCHANGED err
          ELSE /\ pc' = "crashed"
               /\ err' = c.exc
               /\ UNCHANGED cfg
    /\ UNCHANGED <<addr, binding, args, total, verbose, flt, count, gcount, si, pld, recvd,
                   evals, batches, store>>

(* listen_and_write, lines 49-52: without a binding RuntimeError, else the  *)
(* socket is created and bound                                              *)
Bind ==
    /\ pc = "listen"
    /\ IF cfg.bind = "None"
       THEN pc' = "crashed" /\ err' = "RuntimeError"
       ELSE pc' = "bound" /\ UNCHANGED err
    /\ UNCHANGED <<addr, binding, args, cfg, total, verbose, flt, count, gcount, si, pld,
                   recvd, evals, batches, store>>

(* listen_and_write, lines 53-61: count = 0, then the mode is chosen.  In   *)
(* immediate mode the generator receive_batch(sck, total) is created and    *)
(* write_immediately starts to iterate over it.                             *)
Listen ==
    /\ pc = "bound"
    /\ count' = 0
    /\ IF cfg.batch = 0
       THEN /\ pc' = "wi_next"
            /\ gcount' = 0
            /\ batches' = Append(batches, <<>>)
       ELSE /\ pc' = "loop"
            /\ UNCHANGED <<gcount, batches>>
    /\ UNCHANGED <<addr, binding, args, cfg, total, verbose, flt, evals, si, pld, recvd,
                 store, err>>

(* listen_and_write, line 62 true, lines 63-67: a new generator is created  *)
(* and write_batch is entered                                               *)
StartBatch ==
    /\ pc = "loop"
    /\ LoopCond(count, total)
    /\ Len(batches) < MaxCycles
    /\ pc' = "wb_stmt"
    /\ si' = 1
    /\ gcount' = 0
    /\ batches' = Append(batches, <<>>)
    /\ UNCHANGED <<addr, binding, args, cfg, total, verbose, flt, evals, count, pld,
                 recvd, store, err>>

(* listen_and_write, line 62 false, line 69 *)
Stop ==
    /\ pc = "loop"
    /\ ~LoopCond(count, total)
    /\ pc' = "done"
    /\ UNCHANGED <<addr, binding, args, cfg, total, verbose, flt, evals, count, gcount,
                 si, pld, recvd, batches, store, err>>

(* write_batch, line 108: the next statement starts its executemany *)
BatchStmt ==
    /\ pc = "wb_stmt"
    /\ StmtsLeft(si, cfg.insert)
    /\ pc' = "wb_next"
    /\ UNCHANGED <<addr, binding, args, cfg, total, verbose, flt, evals, count, gcount,
                 si, pld, recvd, batches, store, err>>

(* write_batch, line 116, and listen_and_write, line 68 *)
BatchDone ==
    /\ pc = "wb_stmt"
    /\ ~StmtsLeft(si, cfg.insert)
    /\ count' = NextCount(count, cfg.batch)
    /\ pc' = "loop"
    /\ UNCHANGED <<addr, binding, args, cfg, total, verbose, flt, evals, gcount, si, pld,
                 recvd, batches, store, err>>

(* receive_batch, lines 78-88: the consumer asks for the next record and    *)
(* the generator reads one datagram.  An accepted record is counted (line   *)
(* 85), printed when verbose (lines 86-87), then yielded (line 88); an      *)
(* exception of print ends the run with the record counted and not yielded  *)
Recv ==
    /\ pc \in {"wb_next", "wi_next"}
    /\ MoreWanted(gcount, Limit(cfg.batch, total))
    /\ Len(recvd) < MaxFrames
    /\ \E raw \in Frames :
         LET r == loads(raw)
             a == filter(flt, r.value)
             p == Processing(verbose, raw)
         IN /\ recvd' = Append(recvd, raw)
            /\ evals' = Evaluated(evals, r)
            /\ IF ~r.ok
               THEN IF r.exc = "JSONDecodeError"
                    THEN UNCHANGED <<pc, gcount, si, pld, batches, err>>
                    ELSE /\ pc' = "crashed"
                         /\ err' = r.exc
                         /\ UNCHANGED <<gcount, si, pld, batches>>
               ELSE IF a = "True"
                    THEN /\ gcount' = CountAccepted(gcount)
                         /\ IF p \in {"silent", "printed"}
                            THEN /\ pld' = r.value
                                 /\ batches' = Yield(batches, r.value)
                                 /\ IF pc = "wb_next"
                                    THEN pc' = "wb_exec" /\ UNCHANGED si
                                    ELSE pc' = "wi_for" /\ si' = 1
                                 /\ UNCHANGED err
                            ELSE /\ pc' = "crashed"
                                 /\ err' = p
                                 /\ UNCHANGED <<si, pld, batches>>
                    ELSE IF a = "False"
                         THEN UNCHANGED <<pc, gcount, si, pld, batches, err>>
                         ELSE /\ pc' = "crashed"
                              /\ err' = a
                              /\ UNCHANGED <<gcount, si, pld, batches>>
    /\ UNCHANGED <<addr, binding, args, cfg, total, verbose, flt, count, store>>

(* receive_batch, line 78 false, line 89: the generator is exhausted.       *)
(* executemany returns (line 108 takes the next statement), or the for      *)
(* loop of write_immediately ends and listen_and_write returns (line 61)    *)
Exhausted ==
    /\ pc \in {"wb_next", "wi_next"}
    /\ ~MoreWanted(gcount, Limit(cfg.batch, total))
    /\ IF pc = "wb_next"
       THEN pc' = "wb_stmt" /\ si' = si + 1
       ELSE pc' = "done" /\ UNCHANGED si
    /\ UNCHANGED <<addr, binding, args, cfg, total, verbose, flt, evals, count, gcount,
                 pld, recvd, batches, store, err>>

(* write_batch, lines 109-115: the generator expression merges the record   *)
(* just yielded and executemany executes the statement with it              *)
BatchExec ==
    /\ pc = "wb_exec"
    /\ IF IsMapping(pld)
       THEN /\ store' = Execute(store, cfg.insert[si], cfg.defaults, pld.items)
            /\ pc' = "wb_next"
            /\ UNCHANGED err
       ELSE /\ pc' = "crashed"
            /\ err' = "TypeError"
            /\ UNCHANGED store
    /\ UNCHANGED <<addr, binding, args, cfg, total, verbose, flt, evals, count, gcount,
                 si, pld, recvd, batches>>

(* write_immediately, lines 97-101: one statement for the record in hand *)
ImmediateExec ==
    /\ pc = "wi_for"
    /\ StmtsLeft(si, cfg.insert)
    /\ IF IsMapping(pld)
       THEN /\ store' = Execute(store, cfg.insert[si], cfg.defaults, pld.items)
            /\ si' = si + 1
            /\ UNCHANGED <<pc, err>>
       ELSE /\ pc' = "crashed"
            /\ err' = "TypeError"
            /\ UNCHANGED <<store, si>>
    /\ UNCHANGED <<addr, binding, args, cfg, total, verbose, flt, evals, count, gcount,
                 pld, recvd, batches>>

(* write_immediately, line 97 exhausted, back to line 96 *)
ImmediateNext ==
    /\ pc = "wi_for"
    /\ ~StmtsLeft(si, cfg.insert)
    /\ pc' = "wi_next"
    /\ UNCHANGED <<addr, binding, args, cfg, total, verbose, flt, evals, count, gcount,
                 si, pld, recvd, batches, store, err>>

Next ==
    \/ Construct
    \/ Bind
    \/ Listen
    \/ StartBatch
    \/ Stop
    \/ BatchStmt
    \/ BatchDone
    \/ Recv
    \/ Exhausted
    \/ BatchExec
    \/ ImmediateExec
    \/ ImmediateNext

Spec == Init /\ [][Next]_vars

(* ------------------- parse_bind on one address string ------------------ *)
InitBind ==
    /\ addr \in Urls \cup {NoUrl}
    /\ binding = NoRes
    /\ pc = "parse"
    /\ args = NoArgs
    /\ cfg = NoConfig
    /\ total = Inf
    /\ verbose = FALSE
    /\ flt = "default"
    /\ count = 0
    /\ gcount = 0
    /\ si = 1
    /\ pld = NoPld
    /\ recvd = <<>>
    /\ evals = <<>>
    /\ batches = <<>>
    /\ store = <<>>
    /\ err = "none"

(* parse_bind(inpt) returns or raises *)
ParseBind ==
    /\ pc = "parse"
    /\ binding' = parse_bind(addr)
    /\ pc' = "parsed"
    /\ UNCHANGED <<addr, args, cfg, total, verbose, flt, count, gcount, si, pld, recvd,
                   evals, batches, store, err>>

NextBind == ParseBind

SpecBind == InitBind /\ [][NextBind]_vars

(* ------------------------- derived observations ------------------------ *)
RECURSIVE Flatten(_)
Flatten(bs) == IF bs = <<>> THEN <<>> ELSE Head(bs) \o Flatten(Tail(bs))

(* every record the generators have yielded so far, in order of acceptance *)
Accepted == Flatten(batches)

(* the records applied to the store with statement s, in order *)
AppliedWith(s) == SelectSeq(store, LAMBDA e : e.stmt = s)

IsPrefix(a, b) == Len(a) <= Len(b) /\ \A i \in 1..Len(a) : a[i] = b[i]

Malformed(raw) == ~loads(raw).ok

(* what the configured filter is documented to let through *)
Wanted(f, v) ==
    f = "default" \/ (IsMapping(v) /\ "msg" \in DOMAIN v.items /\ v.items["msg"] = f)

ValidAccepted(raw) == loads(raw).ok /\ Wanted(flt, loads(raw).value)

Values(frames) == [i \in 1..Len(frames) |-> loads(frames[i]).value]

CeilDiv(t, n) == (t + n - 1) \div n

Batched == cfg.batch > 0
Immediate == cfg.batch = 0

(* ------------------------------- claims -------------------------------- *)

(* C1: in batched mode with batch size N > 0 and total budget M = k*N, a    *)
(* run that received only valid frames accepted by the filter and returned  *)
(* has read exactly M frames (given at least one insert statement to draw   *)
(* them), and a run that read M has made exactly M/N batches, each of       *)
(* exactly N records, which put end to end are the frames in their order.   *)
C1_BatchesExact ==
    ( /\ pc = "done"
      /\ Batched
      /\ total # Inf
      /\ total % cfg.batch = 0
      /\ \A i \in 1..Len(recvd) : ValidAccepted(recvd[i]) )
    => /\ cfg.insert # <<>> => Len(recvd) = total
       /\ Len(recvd) = total =>
            /\ Len(batches) = total \div cfg.batch
            /\ \A b \in 1..Len(batches) : Len(batches[b]) = cfg.batch
            /\ Accepted = Values(recvd)

C1_Witness ==
    /\ pc = "done"
    /\ cfg.batch = 2
    /\ total = 4
    /\ Len(recvd) = 4
    /\ \A i \in 1..Len(recvd) : ValidAccepted(recvd[i])
    /\ Len(batches) = 2
    /\ recvd[1] # recvd[2]

(* C2: a malformed frame (one that does not parse as JSON) never appears    *)
(* in a batch and never advances a counter, wherever it stands in the       *)
(* stream; K malformed frames followed by valid ones leave the collector    *)
(* collecting, and the valid frames alone fill the one batch.               *)
C2_MalformedDiscarded ==
    /\ Len(Accepted) <= Cardinality({i \in 1..Len(recvd) : ~Malformed(recvd[i])})
    /\ (recvd # <<>> /\ Malformed(recvd[Len(recvd)])) => pc \in {"wb_next", "wi_next"}
    /\ \A k \in 0..Len(recvd) :
         ( /\ Batched
           /\ \A i \in 1..k : Malformed(recvd[i])
           /\ \A i \in (k+1)..Len(recvd) : ValidAccepted(recvd[i])
           /\ Len(recvd) - k <= cfg.batch
           /\ Len(batches) = 1
           /\ pc = "wb_next" )
         => /\ batches[1] = Values(SubSeq(recvd, k+1, Len(recvd)))
            /\ gcount = Len(recvd) - k

(* C3: over a stream of decodable frames, the records receive_batch has    *)
(* yielded are the received records the filter accepts, in the order they   *)
(* were received, all of them except that the one accepted last is missing  *)
(* when print raised on it before the yield; no rejected record is yielded, *)
(* and the counter of the generator counts the accepted records only: the   *)
(* records of its batch, and the one print raised on.                       *)
C3_OnlyAcceptedInOrder ==
    (\A i \in 1..Len(recvd) : loads(recvd[i]).ok)
    => LET sel == Values(SelectSeq(recvd, LAMBDA raw : Wanted(flt, loads(raw).value)))
           lost == IF err = "UnicodeEncodeError" THEN 1 ELSE 0
       IN /\ Len(sel) = Len(Accepted) + lost
          /\ Accepted = SubSeq(sel, 1, Len(Accepted))
          /\ \A i \in 1..Len(Accepted) : Wanted(flt, Accepted[i])
          /\ batches # <<>> => gcount = Len(batches[Len(batches)]) + lost

C3_Witness ==
    /\ flt = "hi"
    /\ Len(recvd) >= 3
    /\ \A i \in 1..Len(recvd) : loads(recvd[i]).ok
    /\ loads(recvd[1]).value = JObject(RecSpoof)
    /\ loads(recvd[2]).value = JObject(RecEuHi)
    /\ Len(Accepted) = 2

(* C4: in batched mode with batch size N > 0 and finite total T the budget  *)
(* is tested only before a batch starts: never more than ceil(T/N) batches  *)
(* are started and a run that returns has made exactly ceil(T/N); the       *)
(* records accepted exceed T by at most N-1; every batch that was followed  *)
(* by another, or by the return, has its full N records.                    *)
C4_BudgetBetweenBatches ==
    (Batched /\ total # Inf)
    => /\ Len(batches) <= CeilDiv(total, cfg.batch)
       /\ pc = "done" => Len(batches) = CeilDiv(total, cfg.batch)
       /\ Len(Accepted) <= total + cfg.batch - 1
       /\ cfg.insert # <<>> =>
            /\ \A b \in 1..(Len(batches) - 1) : Len(batches[b]) = cfg.batch
            /\ pc \in {"loop", "done"} =>
                 \A b \in 1..Len(batches) : Len(batches[b]) = cfg.batch

C4_Witness ==
    /\ pc = "done"
    /\ cfg.batch = 2
    /\ total = 3
    /\ Len(batches) = 2
    /\ Len(Accepted) = 4

(* C5: in immediate mode with finite total T the budget is enforced per     *)
(* record: never more than T records are accepted, no frame is read after   *)
(* the T-th accepted record, and a run that returns has accepted exactly    *)
(* T; with an unbounded total the run never returns.                        *)
C5_ImmediateBudget ==
    Immediate
    => /\ total # Inf => Len(Accepted) <= total
       /\ (total # Inf /\ pc = "done") => Len(Accepted) = total
       /\ (total # Inf /\ Len(Accepted) = total) =>
            IF total = 0 THEN recvd = <<>>
            ELSE /\ ValidAccepted(recvd[Len(recvd)])
                 /\ loads(recvd[Len(recvd)]).value = Accepted[total]
       /\ total = Inf => pc # "done"

C5_Witness ==
    /\ Immediate
    /\ pc = "done"
    /\ total = 2
    /\ Len(recvd) = 4
    /\ Len(store) = 2 * Len(cfg.insert)
    /\ cfg.insert # <<>>

(* C6: under the batched policy, when write_batch has returned, every       *)
(* configured statement has been applied once to every record of the        *)
(* batches written so far, with the merged record.                          *)
C6_EveryStatementEveryRecord ==
    (Batched /\ pc \in {"loop", "done"})
    => \A j \in 1..Len(cfg.insert) :
         /\ Len(AppliedWith(cfg.insert[j])) = Len(Accepted)
         /\ \A i \in 1..Len(Accepted) :
              AppliedWith(cfg.insert[j])[i].params = merge(cfg.defaults, Accepted[i].items)

(* C7: under the immediate policy the store holds, in order, every          *)
(* statement for every accepted record but possibly the newest one, whose   *)
(* statements are applied in order; all of them are applied when the next   *)
(* frame is about to be read.                                               *)
C7_WrittenBeforeNext ==
    Immediate
    => LET L == Len(cfg.insert) IN
       /\ \A j \in 1..Len(store) :
            /\ store[j].stmt = cfg.insert[((j - 1) % L) + 1]
            /\ store[j].src = Accepted[((j - 1) \div L) + 1].items
       /\ Len(store) >= (Len(Accepted) - 1) * L
       /\ pc \in {"wi_next", "done"} => Len(store) = Len(Accepted) * L

C7_Witness ==
    /\ Immediate
    /\ Len(cfg.insert) = 2
    /\ Len(Accepted) = 2
    /\ Len(store) = 3
    /\ Accepted[1] # Accepted[2]

(* C8: every application to the store, by either sink, carries the merged   *)
(* mapping: its keys are the default keys and the record keys together, a   *)
(* record key has the record's value, a key only in the defaults has the    *)
(* default value; the defaults of the Config never change once it is built. *)
C8_MergeRule ==
    /\ [](\A j \in 1..Len(store) :
            LET e == store[j] IN
            /\ DOMAIN e.params = (DOMAIN cfg.defaults) \cup (DOMAIN e.src)
            /\ \A k \in DOMAIN e.src : e.params[k] = e.src[k]
            /\ \A k \in (DOMAIN cfg.defaults) \ (DOMAIN e.src) :
                 e.params[k] = cfg.defaults[k]
            /\ \E i \in 1..Len(Accepted) : Accepted[i].items = e.src)
    /\ [][pc # "config" => cfg'.defaults = cfg.defaults]_vars

C8_Witness ==
    /\ cfg.defaults = [region |-> "us"]
    /\ \E j \in 1..Len(store) :
         /\ store[j].src = RecEuHi
         /\ store[j].params = [region |-> "eu", msg |-> "hi"]
    /\ \E j \in 1..Len(store) :
         /\ store[j].src = RecSpoof
         /\ store[j].params = [region |-> "us", msg |-> "spoof"]

(* C9: in both modes, for each statement, the merged records applied with   *)
(* it so far are, in order, those of an initial part of the sequence of     *)
(* accepted records.                                                        *)
C9_AcceptanceOrder ==
    \A j \in 1..Len(cfg.insert) :
        LET applied == AppliedWith(cfg.insert[j]) IN
        /\ Len(applied) <= Len(Accepted)
        /\ \A i \in 1..Len(applied) :
             /\ applied[i].src = Accepted[i].items
             /\ applied[i].params = merge(cfg.defaults, Accepted[i].items)

C9_Witness ==
    /\ Batched
    /\ cfg.batch = 1
    /\ Len(batches) = 3
    /\ Len(store) = 3
    /\ store[1].src # store[2].src

(* C10: a frame that parses as a JSON value that is not an object is        *)
(* handled as a decode failure: it is not counted, not yielded, and the     *)
(* collector goes on receiving (stated for the filter as shipped).          *)
C10_NonObjectIsDecodeFailure ==
    flt = "default" =>
    /\ \A i \in 1..Len(Accepted) : IsMapping(Accepted[i])
    /\ ( /\ recvd # <<>>
         /\ loads(recvd[Len(recvd)]).ok
         /\ ~IsMapping(loads(recvd[Len(recvd)]).value) )
       => pc \in {"wb_next", "wi_next"}

(* C11: whatever a received frame holds, it is accepted or discarded; no    *)
(* frame ends the run with an exception (stated for the filter as shipped). *)
C11_NoFrameTerminates ==
    (flt = "default" /\ recvd # <<>>) => (pc # "crashed" /\ err = "none")

(* C12: parse_bind("ip://localhost:9999") returns the IPv4 family with the  *)
(* address ("127.0.0.1", 9999) and raises nothing.                          *)
C12_LocalhostLoopback ==
    ( /\ pc = "parsed"
      /\ addr = [scheme |-> "ip", host |-> "localhost", port |-> "9999", path |-> ""] )
    => binding = [ok |-> TRUE, exc |-> "none", family |-> "AF_INET",
                  host |-> "127.0.0.1", port |-> "9999", address |-> <<>>]

(* C13: parse_bind of a unix:// address without host returns the local-path *)
(* binding of its path (unix:///tmp/sock gives (AF_UNIX, "/tmp/sock")), and *)
(* raises ValueError 'No socket path!' when the path is empty as well.      *)
C13_UnixPath ==
    (pc = "parsed" /\ addr.scheme = "unix" /\ addr.host = "" /\ addr.port = "")
    => IF addr.path = ""
       THEN binding = BindError("ValueError: No socket path!")
       ELSE binding = [ok |-> TRUE, exc |-> "none", family |-> "AF_UNIX",
                       host |-> "", port |-> "", address |-> <<addr.path>>]

(* C14: the filter is called once, in order, for each frame that decoded    *)
(* and never for one that did not; the counter of receive_batch moves only  *)
(* in a step whose filter call returned true, and then by exactly one.      *)
C14_FilterOncePerDecoded ==
    /\ [](evals = Values(SelectSeq(recvd, LAMBDA raw : loads(raw).ok)))
    /\ [][recvd' # recvd =>
            LET raw == recvd'[Len(recvd')]
                accepted == /\ loads(raw).ok
                            /\ Len(evals') = Len(evals) + 1
                            /\ evals'[Len(evals')] = loads(raw).value
                            /\ filter(flt, loads(raw).value) = "True"
            IN gcount' = gcount + (IF accepted THEN 1 ELSE 0)]_vars
    /\ [][recvd' = recvd => (gcount' = gcount \/ gcount' = 0)]_vars

C14_Witness ==
    /\ flt = "hi"
    /\ Len(recvd) = 3
    /\ recvd[1] = FrameGarbage
    /\ recvd[2] = FrameObj(RecSpoof)
    /\ recvd[3] = FrameObj(RecEuHi)
    /\ Len(evals) = 2
    /\ gcount = 1

(* C15: in batched mode a cycle collects, then writes: no record of a batch *)
(* is applied to the store before the batch has all its batchsize records,  *)
(* so none is applied while frames of that batch are still to be read.      *)
C15_CollectThenWrite ==
    (Batched /\ batches # <<>> /\ Len(batches[Len(batches)]) < cfg.batch)
    => Len(store) <= Len(Accepted) - Len(batches[Len(batches)])

(* C16: in batched mode, whatever the insert list, the total counter        *)
(* equals the number of records accepted so far each time the loop          *)
(* condition is evaluated (stated for the positive batch sizes).            *)
C16_CounterIsAccepted ==
    (Batched /\ pc = "loop") => count = Len(Accepted)

(* C17: with a finite total listen_and_write returns: every cycle of the    *)
(* batched loop leaves less of the budget than it found, and once the       *)
(* budget is exhausted the next step is the return, with no frame read.     *)
C17_LoopTerminates ==
    /\ [][(pc = "wb_stmt" /\ pc' = "loop" /\ total # Inf)
            => total - count' < total - count]_vars
    /\ [][(pc = "loop" /\ ~Less(count, total))
            => (pc' = "done" /\ recvd' = recvd)]_vars
    /\ [][(pc = "wi_next" /\ total # Inf /\ gcount >= total)
            => (pc' = "done" /\ recvd' = recvd)]_vars

(* C18: a Config that was constructed has a non-negative integer batch, so  *)
(* the limit of a batched receive_batch is positive and the total counter   *)
(* never decreases.                                                         *)
C18_BatchNonNegative ==
    /\ []((args # NoArgs /\ pc \notin {"config", "crashed"})
            => (args.batch.isInt /\ cfg.batch >= 0))
    /\ []((args # NoArgs /\ pc \in {"wb_stmt", "wb_next", "wb_exec"})
            => Limit(cfg.batch, total) > 0)
    /\ [][args # NoArgs => count' >= count]_vars

(* C19: without a binding nothing starts.  Config with bind absent raises   *)
(* ValueError when exporter is absent too and NotImplementedError when it   *)
(* is present (the other arguments being valid); listen_and_write with      *)
(* cfg.bind None raises RuntimeError; in both cases no socket is bound and  *)
(* no frame read; a Config is constructed only with a binding.              *)
OtherArgsValid(a) ==
    a.database # "None" /\ a.create # "None" /\ a.insert.isList /\ a.batch.isInt

C19_NoBindingNoStart ==
    /\ (args # NoArgs /\ pc # "config" /\ args.bind = "None")
         => /\ pc = "crashed"
            /\ recvd = <<>>
            /\ OtherArgsValid(args) =>
                 err = IF args.exporter = "None"
                       THEN "ValueError: Neither bind nor exporter configured!"
                       ELSE "NotImplementedError"
    /\ (args = NoArgs /\ cfg.bind = "None" /\ pc # "listen")
         => (pc = "crashed" /\ err = "RuntimeError" /\ recvd = <<>>)
    /\ (args # NoArgs /\ pc \notin {"config", "crashed"})
         => (args.bind # "None" /\ cfg.bind = args.bind)
    /\ (pc \notin {"config", "listen", "crashed"} \/ recvd # <<>>)
         => cfg.bind # "None"

C19_Witness ==
    /\ pc = "crashed"
    /\ err = "NotImplementedError"
    /\ args.bind = "None"
    /\ args.exporter = "exporter"
    /\ recvd = <<>>
====
